---------------------------- MODULE Spec2Model ----------------------------
(***************************************************************************)
(* A model of the two Sudoku programs of this repository:                  *)
(*   src/backtracking_solver/main.rs  (struct Sudoku, iterative search)    *)
(*   src/naive_solver/main.rs         (struct Board, singleton propagation)*)
(* Positions, rows and columns are 0-based as in the source.  Fixed-size   *)
(* arrays are functions on 0 .. n-1; a Vec, a VecDeque or an iterator is a *)
(* TLA+ sequence (1-based), element k of the source being element k + 1.   *)
(***************************************************************************)
EXTENDS Integers, Sequences, FiniteSets, TLC

VARIABLES
  iter,            \* backtracking: the (index, digit) pairs given to from_iter
  board,           \* Sudoku.board
  unsolved_cells,  \* Sudoku.unsolved_cells
  coords,          \* Sudoku.coords
  rows,            \* Sudoku.rows
  cols,            \* Sudoku.cols
  blocks,          \* Sudoku.blocks
  backtrack_idx,   \* the local of Sudoku::solve
  pc,              \* where the backtracking program is
  calls,           \* how many times solve() has been entered
  config,          \* naive: the [[u32; 9]; 9] given to Board::new
  cells,           \* Board.cells, each cell's possibilities
  solved_cells,    \* Board.solved_cells
  npc,             \* where the naive program is
  pushes           \* history: how often each cell was pushed on solved_cells

btvars == <<iter, board, unsolved_cells, coords, rows, cols, blocks,
            backtrack_idx, pc, calls>>
nvvars == <<config, cells, solved_cells, npc, pushes>>
vars == <<iter, board, unsolved_cells, coords, rows, cols, blocks,
          backtrack_idx, pc, calls, config, cells, solved_cells, npc, pushes>>

(***************************************************************************)
(* Program constants.                                                      *)
(***************************************************************************)
DIMS == 9
AREA == DIMS * DIMS

\* usize::MAX, the value 0 - 1 wraps to when overflow checks are off.  The
\* model checker's integers are 32-bit, so the largest of them stands for it:
\* all the program does with the value is compare it with a length <= 81.
UsizeMax == 2147483647

(***************************************************************************)
(* Bounds of the model.                                                    *)
(***************************************************************************)
\* How many cells of WindowCells vary between the generated inputs.
NumWindow == 4
\* How many times the caller enters solve() on one instance.
MaxCalls == 2
\* How many cells of WindowCells vary between the inputs of the runs checked
\* for termination.
NumFairWindow == 3
\* How many of ExtraClues vary between the inputs of the reordered runs.
NumExtras == 3
\* A reordered run takes its next entry from this many front entries of the
\* solved-cell queue.
PickWidth == 3

Pos == 0 .. (AREA - 1)

Min(S) == CHOOSE x \in S : \A y \in S : x <= y

Max(S) == CHOOSE x \in S : \A y \in S : x >= y

\* The k-th smallest element of a set of numbers, k from 1.
Ascending(S, k) == CHOOSE x \in S : Cardinality({y \in S : y < x}) = k - 1

(***************************************************************************)
(* Inputs.                                                                 *)
(***************************************************************************)
\* main's first clue list.
Sudoku1 ==
  << <<2, 7>>, <<6, 3>>, <<7, 1>>, <<9, 6>>, <<13, 9>>, <<15, 7>>, <<19, 1>>,
     <<23, 8>>, <<27, 2>>, <<29, 6>>, <<30, 8>>, <<32, 9>>, <<37, 4>>,
     <<39, 6>>, <<41, 1>>, <<43, 9>>, <<48, 3>>, <<50, 7>>, <<51, 8>>,
     <<53, 6>>, <<57, 7>>, <<61, 3>>, <<65, 1>>, <<67, 8>>, <<71, 2>>,
     <<73, 2>>, <<74, 5>>, <<78, 6>> >>

\* main's second clue list.
Sudoku2 ==
  << <<2, 4>>, <<9, 9>>, <<10, 5>>, <<12, 4>>, <<17, 8>>, <<22, 1>>,
     <<24, 5>>, <<26, 6>>, <<28, 3>>, <<30, 6>>, <<35, 5>>, <<37, 1>>,
     <<39, 3>>, <<41, 8>>, <<43, 6>>, <<45, 4>>, <<50, 5>>, <<52, 7>>,
     <<54, 8>>, <<56, 9>>, <<58, 4>>, <<63, 3>>, <<68, 2>>, <<70, 5>>,
     <<71, 4>>, <<78, 2>> >>

\* A complete valid grid (row-major), the base of the generated inputs.
FullGrid ==
  << 1, 2, 3, 4, 5, 6, 7, 8, 9,
     4, 5, 6, 7, 8, 9, 1, 2, 3,
     7, 8, 9, 1, 2, 3, 4, 5, 6,
     2, 1, 4, 3, 6, 5, 8, 9, 7,
     3, 6, 5, 8, 9, 7, 2, 1, 4,
     8, 9, 7, 2, 1, 4, 3, 6, 5,
     5, 3, 1, 6, 4, 2, 9, 7, 8,
     6, 4, 2, 9, 7, 8, 5, 3, 1,
     9, 7, 8, 5, 3, 1, 6, 4, 2 >>

\* The cells that vary.  The first four are the corners of a rectangle
\* (rows 0 and 3, columns 0 and 1) that FullGrid fills 1 2 / 2 1: with all
\* four empty the puzzle has two completions.
WindowCells == <<0, 1, 27, 28, 2, 29, 9, 36>>

Window ==
  {WindowCells[k] : k \in 1 .. (IF NumWindow < Len(WindowCells)
                                 THEN NumWindow ELSE Len(WindowCells))}

\* What a window cell is given as: << >> for no clue, else <<d>> for the clue
\* digit d (0 is a digit outside 1..9).
Hole == << >>
ClueChoices == {Hole, <<0>>, <<1>>, <<2>>}

\* FullGrid's clues for the cells outside the window, in ascending order.
BaseIter ==
  LET given == Pos \ Window
  IN  [k \in 1 .. Cardinality(given) |->
         <<Ascending(given, k), FullGrid[Ascending(given, k) + 1]>>]

\* The clues w gives the window cells WindowCells[k..], holes left out.
RECURSIVE WindowPairs(_, _)
WindowPairs(w, k) ==
  IF k > Len(WindowCells) \/ k > NumWindow THEN << >>
  ELSE LET i == WindowCells[k]
       IN  (IF w[i] = Hole THEN << >> ELSE << <<i, w[i][1]>> >>)
             \o WindowPairs(w, k + 1)

\* The clue list of FullGrid with the window cells given as w says.
WindowIter(w) == BaseIter \o WindowPairs(w, 1)

WindowInputs == {WindowIter(w) : w \in [Window -> ClueChoices]}

\* Clue lists whose pairs are not one per position, or not inside the grid.
OddInputs ==
  { << <<0, 1>>, <<0, 2>> >>,        \* a position listed twice
    << <<AREA, 1>> >>,               \* a position outside the grid
    << <<3, 4>>, <<AREA + 7, 2>> >>,
    \* FullGrid with the digit 10 at position 0
    WindowIter([i \in Window |-> IF i = 0 THEN <<10>> ELSE <<FullGrid[i + 1]>>]) }

\* Nine clues that agree with each other and leave position 0 no digit:
\* 1..8 in the rest of row 0, 9 below it in column 0.
NoCandidate ==
  << <<1, 1>>, <<2, 2>>, <<3, 3>>, <<4, 4>>, <<5, 5>>, <<6, 6>>, <<7, 7>>,
     <<8, 8>>, <<9, 9>> >>

BtInputs ==
  {<< >>, Sudoku1, Sudoku2, NoCandidate} \cup WindowInputs \cup OddInputs


(***************************************************************************)
(* backtracking_solver: construction (FromIterator for Sudoku).            *)
(***************************************************************************)
Idx == 0 .. (DIMS - 1)

\* for (i, n) in iter { board[i] = n; filled_slots.insert(i); }
\* board[i] = n panics on the first i outside the array.
InRange(it) == \A k \in 1 .. Len(it) : it[k][1] \in Pos

\* The positions the loop inserts into filled_slots.
filled_slots(it) == {it[k][1] : k \in 1 .. Len(it)}

\* The board the loop leaves: each position holds the digit of the last pair
\* that names it, 0 when none does.
FillBoard(it) ==
  [i \in Pos |->
     LET K == {k \in 1 .. Len(it) : it[k][1] = i}
     IN  IF K = {} THEN 0 ELSE it[Max(K)][2]]

\* The unsolved-cell list as it would be without the retain: every position.
Retain_all(filled) == [k \in 1 .. AREA |-> k - 1]

\* (0..AREA).collect() followed by retain(|x| !filled_slots.contains(x)):
\* the positions not filled, in ascending order.
Retain(filled) ==
  LET keep == Pos \ filled
  IN  [k \in 1 .. Cardinality(keep) |-> Ascending(keep, k)]

board_coords == [i \in Pos |-> <<i \div 9, i % 9>>]

board_rows == [x \in Idx |-> [y \in Idx |-> x * DIMS + y]]

board_cols == [y \in Idx |-> [x \in Idx |-> x * DIMS + y]]

\* blocks[block][idx_in_block] = idx for x, y ascending; an entry no (x, y)
\* writes keeps its initial 0, one written twice keeps the last write.
board_blocks ==
  [b \in Idx |-> [k \in Idx |->
     LET S == {x * DIMS + y : x \in Idx, y \in Idx}
         T == {i \in S : /\ ((i \div DIMS) \div 3) * 3 + ((i % DIMS) \div 3) = b
                         /\ ((i \div DIMS) % 3) * 3 + ((i % DIMS) % 3) = k}
     IN  IF T = {} THEN 0 ELSE Max(T)]]

\* The instance from_iter builds; ok is FALSE when it panics instead.
from_iter(it) ==
  IF InRange(it)
  THEN [ok |-> TRUE,
        board |-> FillBoard(it),
        unsolved_cells |-> Retain(filled_slots(it))]
  ELSE [ok |-> FALSE,
        board |-> [i \in Pos |-> 0],
        unsolved_cells |-> << >>]

(***************************************************************************)
(* backtracking_solver: impl Sudoku.                                       *)
(***************************************************************************)
None == << >>
Some(v) == <<v>>

get_cell(row, col) == board[row * 9 + col]

\* set_cell as it would be with row and column exchanged in the index.
set_cell_transposed(row, col, value) == [board EXCEPT ![col * 9 + row] = value]

set_cell(row, col, value) == [board EXCEPT ![row * 9 + col] = value]

\* is_valid_cell as it would be without the "continue" that skips the cell
\* itself.
is_valid_cell_noskip(row, col, value) ==
  LET block == (row \div 3) * 3 + (col \div 3)
  IN  /\ \A k \in Idx : value # board[rows[row][k]]
      /\ \A k \in Idx : value # board[cols[col][k]]
      /\ \A k \in Idx : value # board[blocks[block][k]]

is_valid_cell(row, col, value) ==
  LET idx == row * 9 + col
      block == (row \div 3) * 3 + (col \div 3)
  IN  /\ \A k \in Idx : rows[row][k] = idx \/ value # board[rows[row][k]]
      /\ \A k \in Idx : cols[col][k] = idx \/ value # board[cols[col][k]]
      /\ \A k \in Idx : blocks[block][k] = idx \/ value # board[blocks[block][k]]

\* find_solution as it would be were its result the last valid digit of the
\* range instead of the first.
find_solution_last(row, col) ==
  LET cell == get_cell(row, col) + 1
      found == {i \in cell .. 9 : is_valid_cell(row, col, i)}
  IN  IF found = {} THEN None ELSE Some(Max(found))

\* find_solution as it would be were the range to start at the cell's own
\* value (no + 1).
find_solution_same(row, col) ==
  LET cell == get_cell(row, col)
      found == {i \in cell .. 9 : is_valid_cell(row, col, i)}
  IN  IF found = {} THEN None ELSE Some(Min(found))

\* find_solution as it would be with the range cell..9 (9 left out).
find_solution_excl(row, col) ==
  LET cell == get_cell(row, col) + 1
      found == {i \in cell .. 8 : is_valid_cell(row, col, i)}
  IN  IF found = {} THEN None ELSE Some(Min(found))

find_solution(row, col) ==
  LET cell == get_cell(row, col) + 1
      found == {i \in cell .. 9 : is_valid_cell(row, col, i)}
  IN  IF found = {} THEN None ELSE Some(Min(found))

\* self.coords[self.unsolved_cells[backtrack_idx]]
CurrentCell == coords[unsolved_cells[backtrack_idx + 1]]

\* while backtrack_idx < self.unsolved_cells.len()
LoopCondition == backtrack_idx < Len(unsolved_cells)

\* The caller enters solve(): let mut backtrack_idx = 0.
SolveEnter ==
  /\ pc \in {"ready", "returned"}
  /\ calls < MaxCalls
  /\ backtrack_idx' = 0
  /\ pc' = "loop"
  /\ calls' = calls + 1
  /\ UNCHANGED <<iter, board, unsolved_cells, coords, rows, cols, blocks>>
  /\ UNCHANGED nvvars

\* Some(s) => { self.set_cell(row, col, s); backtrack_idx += 1; }
SolveAdvance ==
  /\ pc = "loop"
  /\ LoopCondition
  /\ LET row == CurrentCell[1]
         col == CurrentCell[2]
         sol == find_solution(row, col)
     IN  /\ sol # None
         /\ board' = set_cell(row, col, sol[1])
  /\ backtrack_idx' = backtrack_idx + 1
  /\ UNCHANGED <<iter, unsolved_cells, coords, rows, cols, blocks, pc, calls>>
  /\ UNCHANGED nvvars

\* None => { self.set_cell(row, col, 0); backtrack_idx -= 1; } with
\* backtrack_idx > 0.
SolveRetreat ==
  /\ pc = "loop"
  /\ LoopCondition
  /\ backtrack_idx > 0
  /\ LET row == CurrentCell[1]
         col == CurrentCell[2]
     IN  /\ find_solution(row, col) = None
         /\ board' = set_cell(row, col, 0)
  /\ backtrack_idx' = backtrack_idx - 1
  /\ UNCHANGED <<iter, unsolved_cells, coords, rows, cols, blocks, pc, calls>>
  /\ UNCHANGED nvvars

\* The same arm with backtrack_idx = 0: 0 - 1 on a usize.  A build with
\* overflow checks panics ("attempt to subtract with overflow"); a build
\* without them wraps to usize::MAX.  The cell is cleared first either way.
SolveUnderflow ==
  /\ pc = "loop"
  /\ LoopCondition
  /\ backtrack_idx = 0
  /\ LET row == CurrentCell[1]
         col == CurrentCell[2]
     IN  /\ find_solution(row, col) = None
         /\ board' = set_cell(row, col, 0)
  /\ \/ /\ pc' = "panicked"
        /\ backtrack_idx' = backtrack_idx
     \/ /\ pc' = pc
        /\ backtrack_idx' = UsizeMax
  /\ UNCHANGED <<iter, unsolved_cells, coords, rows, cols, blocks, calls>>
  /\ UNCHANGED nvvars

\* The loop condition is false: solve() returns ().
SolveReturn ==
  /\ pc = "loop"
  /\ ~LoopCondition
  /\ pc' = "returned"
  /\ UNCHANGED <<iter, board, unsolved_cells, coords, rows, cols, blocks,
                 backtrack_idx, calls>>
  /\ UNCHANGED nvvars

SolveStep == SolveAdvance \/ SolveRetreat \/ SolveUnderflow \/ SolveReturn

\* The state after Sudoku::from_iter(it): the instance, or the panic of an
\* out-of-range index.
BtInit ==
  /\ iter \in BtInputs
  /\ LET s == from_iter(iter)
     IN  /\ board = s.board
         /\ unsolved_cells = s.unsolved_cells
         /\ pc = IF s.ok THEN "ready" ELSE "panicked"
  /\ coords = board_coords
  /\ rows = board_rows
  /\ cols = board_cols
  /\ blocks = board_blocks
  /\ backtrack_idx = 0
  /\ calls = 0

\* The naive program is not running.
NaiveIdle ==
  /\ config = << >>
  /\ cells = << >>
  /\ solved_cells = << >>
  /\ npc = "none"
  /\ pushes = << >>

Init == BtInit /\ NaiveIdle

Next ==
  \/ SolveEnter
  \/ SolveAdvance
  \/ SolveRetreat
  \/ SolveUnderflow
  \/ SolveReturn

Spec == Init /\ [][Next]_vars

\* solve() is a synchronous loop: once entered it keeps stepping.
FairSpec == Spec /\ WF_vars(SolveStep)


(***************************************************************************)
(* naive_solver: inputs.                                                   *)
(***************************************************************************)
\* A row-major sequence of 81 digits as the [[u32; 9]; 9] of Board::new.
ConfigOf(q) == [x \in Idx |-> [y \in Idx |-> q[x * 9 + y + 1]]]

\* main's config1.
Config1 ==
  ConfigOf(<< 7, 0, 6, 0, 4, 0, 9, 0, 0,
              0, 0, 0, 1, 6, 2, 0, 7, 0,
              5, 0, 3, 0, 0, 0, 1, 0, 4,
              0, 5, 0, 6, 0, 4, 0, 1, 0,
              4, 3, 0, 0, 0, 0, 0, 2, 6,
              0, 6, 0, 3, 0, 9, 0, 4, 0,
              3, 0, 4, 0, 0, 0, 6, 0, 8,
              0, 7, 0, 8, 3, 6, 0, 0, 0,
              0, 0, 1, 0, 9, 0, 2, 0, 7 >>)

\* main's config2.
Config2 ==
  ConfigOf(<< 5, 3, 0, 0, 7, 0, 0, 0, 0,
              6, 0, 0, 1, 9, 5, 0, 0, 0,
              0, 9, 8, 0, 0, 0, 0, 6, 0,
              8, 0, 0, 0, 6, 0, 0, 0, 3,
              4, 0, 0, 8, 0, 3, 0, 0, 1,
              7, 0, 0, 0, 2, 0, 0, 0, 6,
              0, 6, 0, 0, 0, 0, 2, 8, 0,
              0, 0, 0, 4, 1, 9, 0, 0, 5,
              0, 0, 0, 0, 8, 0, 0, 7, 9 >>)

\* The dense grid of a clue list (0 where it gives no clue).
DenseOf(it) ==
  [x \in Idx |-> [y \in Idx |->
     LET K == {k \in 1 .. Len(it) : it[k][1] = x * 9 + y}
     IN  IF K = {} THEN 0 ELSE it[Max(K)][2]]]

\* FullGrid with the window cells replaced by what w says.
WindowConfig(w) ==
  [x \in Idx |-> [y \in Idx |->
     IF x * 9 + y \in Window THEN w[x * 9 + y] ELSE FullGrid[x * 9 + y + 1]]]

\* What a window cell of a dense grid is: 0 for empty, or the digit 1 or 2.
CellChoices == {0, 1, 2}

\* Seven clues, 1..7 in columns 0..6 of row 0: cells (0,7) and (0,8) are
\* left the candidates 8 and 9.
RowClues ==
  << <<0, 1>>, <<1, 2>>, <<2, 3>>, <<3, 4>>, <<4, 5>>, <<5, 6>>, <<6, 7>> >>

\* Clues that decide those two cells: 9 in column 7 and 8 in column 8 agree
\* with FullGrid, 8 in column 7 does not.
ExtraClues == << <<34, 9>>, <<52, 8>>, <<62, 8>>, <<44, 4>>, <<70, 2>> >>

RECURSIVE ExtraPairs(_, _)
ExtraPairs(on, k) ==
  IF k > Len(ExtraClues) \/ k > NumExtras THEN << >>
  ELSE (IF k \in on THEN <<ExtraClues[k]>> ELSE << >>) \o ExtraPairs(on, k + 1)

\* The grids given to the reordered runs.
SmallInputs ==
  {DenseOf(RowClues \o ExtraPairs(on, 1)) : on \in SUBSET (1 .. NumExtras)}

NvInputs ==
  {Config1, Config2, DenseOf(Sudoku1), DenseOf(NoCandidate), DenseOf(<< >>),
   DenseOf(<< <<0, 10>>, <<1, 10>>, <<2, 3>> >>)}
    \cup {WindowConfig(w) : w \in [Window -> CellChoices]}

(***************************************************************************)
(* naive_solver: impl Cell.                                                *)
(***************************************************************************)
Cell_new(v) == IF v = 0 THEN 1 .. 9 ELSE {v}

resolve(possibilities) ==
  IF Cardinality(possibilities) = 1
  THEN CHOOSE v \in possibilities : TRUE
  ELSE 0

\* remove_possibility as it would be with insert in the place of remove.
remove_possibility_insert(possibilities, v) == possibilities \cup {v}

remove_possibility(possibilities, v) == possibilities \ {v}

\* is_solved as it would be were the test len() <= 2.
is_solved_le2(possibilities) == Cardinality(possibilities) <= 2

is_solved(possibilities) == Cardinality(possibilities) = 1

(***************************************************************************)
(* naive_solver: impl Board.  A board value is a record of cells,          *)
(* solved_cells and the push history.                                      *)
(***************************************************************************)
SolvedCell(x, y, value) == [x |-> x, y |-> y, value |-> value]

\* The entries Board::new pushes for row x, in column order.
RowPushes(rws, x) ==
  LET ys == {y \in Idx : rws[x][y] # 0}
  IN  [k \in 1 .. Cardinality(ys) |->
         SolvedCell(x, Ascending(ys, k), rws[x][Ascending(ys, k)])]

Board_new(rws) ==
  [cells |-> [x \in Idx |-> [y \in Idx |-> Cell_new(rws[x][y])]],
   solved_cells |->
     RowPushes(rws, 0) \o RowPushes(rws, 1) \o RowPushes(rws, 2)
       \o RowPushes(rws, 3) \o RowPushes(rws, 4) \o RowPushes(rws, 5)
       \o RowPushes(rws, 6) \o RowPushes(rws, 7) \o RowPushes(rws, 8),
   pushes |-> [x \in Idx |-> [y \in Idx |-> IF rws[x][y] # 0 THEN 1 ELSE 0]]]

\* reduce_cell_possibilities as it would be without its outer
\* if !cell.is_solved().
reduce_cell_possibilities_unguarded(B, x, y, v) ==
  LET after == remove_possibility(B.cells[x][y], v)
      cells2 == [B.cells EXCEPT ![x][y] = after]
  IN  IF is_solved(after)
      THEN [cells |-> cells2,
            solved_cells |->
              Append(B.solved_cells, SolvedCell(x, y, resolve(after))),
            pushes |-> [B.pushes EXCEPT ![x][y] = @ + 1]]
      ELSE [B EXCEPT !.cells = cells2]

\* reduce_cell_possibilities as it would be were its test "the cell has a
\* candidate left" instead of "the cell is not solved".
reduce_cell_possibilities_nonempty(B, x, y, v) ==
  LET cell == B.cells[x][y]
  IN  IF cell # {}
      THEN LET after == remove_possibility(cell, v)
               cells2 == [B.cells EXCEPT ![x][y] = after]
           IN  IF is_solved(after) /\ ~is_solved(cell)
               THEN [cells |-> cells2,
                     solved_cells |->
                       Append(B.solved_cells, SolvedCell(x, y, resolve(after))),
                     pushes |-> [B.pushes EXCEPT ![x][y] = @ + 1]]
               ELSE [B EXCEPT !.cells = cells2]
      ELSE B

reduce_cell_possibilities(B, x, y, v) ==
  LET cell == B.cells[x][y]
  IN  IF ~is_solved(cell)
      THEN LET after == remove_possibility(cell, v)
               cells2 == [B.cells EXCEPT ![x][y] = after]
           IN  IF is_solved(after)
               THEN [cells |-> cells2,
                     solved_cells |->
                       Append(B.solved_cells, SolvedCell(x, y, resolve(after))),
                     pushes |-> [B.pushes EXCEPT ![x][y] = @ + 1]]
               ELSE [B EXCEPT !.cells = cells2]
      ELSE B

\* Visits as it would be without the first loop.
Visits_nofirst(solved) ==
  LET sqx == (solved.x \div 3) * 3
      sqy == (solved.y \div 3) * 3
  IN  [k \in 1 .. 18 |->
         IF k <= 9 THEN <<solved.x, k - 1>>
         ELSE <<((k - 10) \div 3) + sqx, ((k - 10) % 3) + sqy>>]

\* Visits as it would be without the loop over the block.
Visits_noblock(solved) ==
  [k \in 1 .. 18 |->
     IF k <= 9 THEN <<k - 1, solved.y>> ELSE <<solved.x, k - 10>>]

\* Visits as it would be were the block's corner taken with % in place
\* of /.
Visits_modblock(solved) ==
  LET sqx == (solved.x % 3) * 3
      sqy == (solved.y % 3) * 3
  IN  [k \in 1 .. 27 |->
         IF k <= 9 THEN <<k - 1, solved.y>>
         ELSE IF k <= 18 THEN <<solved.x, k - 10>>
         ELSE <<((k - 19) \div 3) + sqx, ((k - 19) % 3) + sqy>>]

\* The (x, y) reduce_possibilities visits, in its order: the nine with the
\* solved cell's y, the nine with its x, the nine of its block.
Visits(solved) ==
  LET sqx == (solved.x \div 3) * 3
      sqy == (solved.y \div 3) * 3
  IN  [k \in 1 .. 27 |->
         IF k <= 9 THEN <<k - 1, solved.y>>
         ELSE IF k <= 18 THEN <<solved.x, k - 10>>
         ELSE <<((k - 19) \div 3) + sqx, ((k - 19) % 3) + sqy>>]

\* The visits from the k-th on, one after the other.  (N is a bound variable
\* so that each visit is evaluated before the next one starts.)
RECURSIVE ReduceFrom(_, _, _, _)
ReduceFrom(B, visits, k, v) ==
  IF k > Len(visits) THEN B
  ELSE CHOOSE R \in
         {ReduceFrom(N, visits, k + 1, v) :
            N \in {reduce_cell_possibilities(B, visits[k][1], visits[k][2], v)}} :
         TRUE

reduce_possibilities(B, solved) == ReduceFrom(B, Visits(solved), 1, solved.value)

TheBoard == [cells |-> cells, solved_cells |-> solved_cells, pushes |-> pushes]

\* The caller enters solve().
BoardSolveEnter ==
  /\ npc = "ready"
  /\ npc' = "loop"
  /\ UNCHANGED <<config, cells, solved_cells, pushes>>
  /\ UNCHANGED btvars

\* while let Some(solved) = self.solved_cells.pop_front()
\*   { self.reduce_possibilities(solved); }
BoardSolveStep ==
  /\ npc = "loop"
  /\ solved_cells # << >>
  /\ LET solved == Head(solved_cells)
         B == reduce_possibilities(
                [TheBoard EXCEPT !.solved_cells = Tail(solved_cells)], solved)
     IN  /\ cells' = B.cells
         /\ solved_cells' = B.solved_cells
         /\ pushes' = B.pushes
  /\ UNCHANGED <<config, npc>>
  /\ UNCHANGED btvars

\* solve() with the queue processed in another order: the entry taken is
\* any of the first PickWidth, not always the front one.
BoardSolveStepAny ==
  /\ npc = "loop"
  /\ solved_cells # << >>
  /\ \E k \in 1 .. Len(solved_cells) :
       /\ k <= PickWidth
       /\ LET solved == solved_cells[k]
              rest == SubSeq(solved_cells, 1, k - 1)
                        \o SubSeq(solved_cells, k + 1, Len(solved_cells))
              B == reduce_possibilities(
                     [TheBoard EXCEPT !.solved_cells = rest], solved)
          IN  /\ cells' = B.cells
              /\ solved_cells' = B.solved_cells
              /\ pushes' = B.pushes
  /\ UNCHANGED <<config, npc>>
  /\ UNCHANGED btvars

\* pop_front() returns None: solve() returns.
BoardSolveReturn ==
  /\ npc = "loop"
  /\ solved_cells = << >>
  /\ npc' = "returned"
  /\ UNCHANGED <<config, cells, solved_cells, pushes>>
  /\ UNCHANGED btvars

\* The state after Board::new(rws).
BoardInit(inputs) ==
  /\ config \in inputs
  /\ LET B == Board_new(config)
     IN  /\ cells = B.cells
         /\ solved_cells = B.solved_cells
         /\ pushes = B.pushes
  /\ npc = "ready"

\* The backtracking program is not running.
BtIdle ==
  /\ iter = << >>
  /\ board = << >>
  /\ unsolved_cells = << >>
  /\ coords = << >>
  /\ rows = << >>
  /\ cols = << >>
  /\ blocks = << >>
  /\ backtrack_idx = 0
  /\ pc = "none"
  /\ calls = 0

NaiveInit == BoardInit(NvInputs) /\ BtIdle

NaiveNext ==
  \/ BoardSolveEnter
  \/ BoardSolveStep
  \/ BoardSolveReturn

SpecNaive == NaiveInit /\ [][NaiveNext]_vars

\* The grids of the runs checked for termination: the fixed ones of
\* NvInputs, and FullGrid with its first NumFairWindow window cells
\* replaced.
FairWindow ==
  {WindowCells[k] : k \in 1 .. (IF NumFairWindow < Len(WindowCells)
                                 THEN NumFairWindow ELSE Len(WindowCells))}

FairInputs ==
  {Config1, Config2, DenseOf(Sudoku1), DenseOf(NoCandidate), DenseOf(<< >>),
   DenseOf(<< <<0, 10>>, <<1, 10>>, <<2, 3>> >>)}
    \cup {[x \in Idx |-> [y \in Idx |->
             IF x * 9 + y \in FairWindow THEN w[x * 9 + y]
             ELSE FullGrid[x * 9 + y + 1]]] : w \in [FairWindow -> CellChoices]}

FairNaiveInit == BoardInit(FairInputs) /\ BtIdle

\* solve() is a synchronous loop: once entered it keeps stepping.
FairSpecNaive ==
  /\ FairNaiveInit
  /\ [][NaiveNext]_vars
  /\ WF_vars(BoardSolveStep \/ BoardSolveReturn)

\* solve() run to its end on a board value, front entry first.
RECURSIVE RunFifo(_)
RunFifo(B) ==
  IF B.solved_cells = << >> THEN B
  ELSE CHOOSE R \in
         {RunFifo(N) :
            N \in {reduce_possibilities(
                     [B EXCEPT !.solved_cells = Tail(B.solved_cells)],
                     Head(B.solved_cells))}} :
         TRUE

AnyOrderInit == BoardInit(SmallInputs) /\ BtIdle

AnyOrderNext ==
  \/ BoardSolveEnter
  \/ BoardSolveStepAny
  \/ BoardSolveReturn

SpecAnyOrder == AnyOrderInit /\ [][AnyOrderNext]_vars

(***************************************************************************)
(* What the claims speak of, stated on the grid's geometry alone.          *)
(***************************************************************************)
Digits == 1 .. 9

RowOf(i) == i \div 9
ColOf(i) == i % 9
BlockOf(i) == (RowOf(i) \div 3) * 3 + (ColOf(i) \div 3)

Units ==
  {{i \in Pos : RowOf(i) = u} : u \in Idx}
    \cup {{i \in Pos : ColOf(i) = u} : u \in Idx}
    \cup {{i \in Pos : BlockOf(i) = u} : u \in Idx}

\* The other cells of i's row, column and block.
PeerTable ==
  [i \in Pos |->
     {j \in Pos : /\ j # i
                  /\ \/ RowOf(j) = RowOf(i)
                     \/ ColOf(j) = ColOf(i)
                     \/ BlockOf(j) = BlockOf(i)}]

Peers(i) == PeerTable[i]

\* No cell of g is 0 (or outside 1..9) and every row, column and block holds
\* each digit exactly once.
GridValid(g) ==
  /\ \A i \in Pos : g[i] \in Digits
  /\ \A U \in Units : \A d \in Digits : Cardinality({i \in U : g[i] = d}) = 1

\* The positions the clue list names, and the digit it gives each.
CluePositions(it) == {it[k][1] : k \in 1 .. Len(it)} \cap Pos
ClueGrid(it) ==
  [i \in Pos |-> IF \E k \in 1 .. Len(it) : it[k][1] = i
                 THEN it[Max({k \in 1 .. Len(it) : it[k][1] = i})][2]
                 ELSE 0]

\* g is a valid grid that agrees with every clue of it.
IsCompletion(g, it) ==
  /\ \A k \in 1 .. Len(it) : it[k][1] \in Pos
  /\ \A i \in CluePositions(it) : g[i] = ClueGrid(it)[i]
  /\ GridValid(g)

\* A row-major sequence of 81 digits as a grid.
GridOf(q) == [i \in Pos |-> q[i + 1]]

\* Inputs with more empty cells than this are not enumerated.
MaxHoles == 60

\* Every way to fill the cells hs of g, lowest position first, each with a
\* digit none of its peers holds, that ends in a valid grid.
RECURSIVE Fillings(_, _)
Fillings(g, hs) ==
  IF hs = {} THEN (IF GridValid(g) THEN {g} ELSE {})
  ELSE LET h == Min(hs)
           free == Digits \ {g[p] : p \in Peers(h)}
       IN  UNION {Fillings([g EXCEPT ![h] = v], hs \ {h}) : v \in free}

\* All valid completions of the clue list.
Completions(it) ==
  IF \E k \in 1 .. Len(it) : it[k][1] \notin Pos THEN {}
  ELSE Fillings(ClueGrid(it), Pos \ CluePositions(it))

Enumerable(it) == Cardinality(Pos \ CluePositions(it)) <= MaxHoles

\* solve() has returned with the cursor at the end of the list.
SolvedOutcome == pc = "returned" /\ backtrack_idx = Len(unsolved_cells)

\* The first solve() of the instance has returned.
FirstReturn == pc = "returned" /\ calls = 1

\* Every clue of the input is still on the board.
KeepsClues == \A k \in 1 .. Len(iter) : board[iter[k][1]] = iter[k][2]

(***************************************************************************)
(* C1.  Whatever clue list the constructor was given, when solve() ends    *)
(* with the cursor at the end of the unsolved-cell list the grid has no 0  *)
(* cell and every row, column and block holds each digit exactly once.     *)
(***************************************************************************)
C1_SolvedGridValid == SolvedOutcome => GridValid(board)

(***************************************************************************)
(* C2.  On a puzzle without solution solve() stops in an outcome of its    *)
(* own: the program does not crash, the cursor stays within 0 .. length    *)
(* (no retreat below 0, no wrap-around), and a return always has the       *)
(* cursor at the end of the list.                                          *)
(***************************************************************************)
C2_UnsolvableReported ==
  /\ calls >= 1 => pc # "panicked"
  /\ backtrack_idx \in 0 .. Len(unsolved_cells)
  /\ pc = "returned" => backtrack_idx = Len(unsolved_cells)

(***************************************************************************)
(* C3.  Completeness.  For a clue list with at least one valid completion  *)
(* the first solve() neither panics nor wraps its cursor, and returns with *)
(* the cursor at the end of the list and a grid that is a valid completion *)
(* of the clues; when the completion is unique the grid is that one.  (All *)
(* completions are enumerated for inputs of at most MaxHoles empty cells;  *)
(* FullGrid completes the input without clues.)                            *)
(***************************************************************************)
HasCompletion ==
  IF Enumerable(iter) THEN Completions(iter) # {} ELSE IsCompletion(GridOf(FullGrid), iter)

C3_Complete ==
  /\ (pc = "panicked" \/ backtrack_idx = UsizeMax) /\ calls = 1
       => ~HasCompletion
  /\ FirstReturn /\ HasCompletion
       => /\ SolvedOutcome
          /\ IsCompletion(board, iter)
          /\ Enumerable(iter) /\ Cardinality(Completions(iter)) = 1
               => board \in Completions(iter)

\* The first solve() has returned on a puzzle of more than 50 empty cells
\* whose completion is unique.
C3_Witness ==
  /\ FirstReturn
  /\ Len(unsolved_cells) > 50
  /\ Enumerable(iter)
  /\ Cardinality(Completions(iter)) = 1

(***************************************************************************)
(* C4.  Idempotence.  While solve() runs on a grid that is already solved  *)
(* (complete and valid), no step writes a cell: the grid stays as it is.   *)
(***************************************************************************)
C4_Idempotent == [][pc = "loop" /\ GridValid(board) => board' = board]_vars

(***************************************************************************)
(* C5.  Termination.  Every run of the cursor loop stops; each iteration   *)
(* either writes a strictly larger digit into the current cell and moves   *)
(* the cursor forward by one, or clears the cell and moves the cursor off  *)
(* it backwards; and on the input without clues solve() returns with a     *)
(* complete valid grid.                                                    *)
(***************************************************************************)
IterationShape ==
  pc = "loop" /\ LoopCondition =>
    LET i == unsolved_cells[backtrack_idx + 1]
    IN  \/ /\ board'[i] > board[i]
           /\ board'[i] \in Digits
           /\ backtrack_idx' = backtrack_idx + 1
        \/ /\ board'[i] = 0
           /\ backtrack_idx' # backtrack_idx \/ pc' = "panicked"
           /\ backtrack_idx' \notin backtrack_idx .. Len(unsolved_cells)
                \/ pc' = "panicked"

C5_Terminates ==
  /\ [][IterationShape]_vars
  /\ [](pc = "loop" => <>(pc # "loop"))
  /\ [](iter = << >> /\ pc = "loop" /\ calls = 1
          => <>(FirstReturn /\ SolvedOutcome /\ GridValid(board)))

\* solve() has returned on the input without clues.
C5_Witness == iter = << >> /\ FirstReturn /\ Len(unsolved_cells) = AREA

(***************************************************************************)
(* C6.  On each of main's two clue lists solve() terminates with a grid    *)
(* that has no zero cell, keeps every clue and is valid in every row,      *)
(* column and block.                                                       *)
(***************************************************************************)
C6_MainPuzzles ==
  [](iter \in {Sudoku1, Sudoku2} /\ pc = "loop" /\ calls = 1
       => <>(FirstReturn /\ SolvedOutcome /\ KeepsClues /\ GridValid(board)))

\* solve() has returned on main's second clue list.
C6_Witness == iter = Sudoku2 /\ FirstReturn /\ board[0] # 0

(***************************************************************************)
(* C7.  Propagation engine: from construction on, each cell's candidate    *)
(* set is a subset of the set Cell::new gave it, and every step leaves     *)
(* each cell a subset of what it was (nothing is added, nothing removed    *)
(* comes back).                                                            *)
(***************************************************************************)
C7_DomainsShrink ==
  /\ [](\A x \in Idx, y \in Idx : cells[x][y] \subseteq Cell_new(config[x][y]))
  /\ [][\A x \in Idx, y \in Idx : cells'[x][y] \subseteq cells[x][y]]_vars

\* Some cell has lost a candidate.
C7_Witness ==
  /\ npc = "loop"
  /\ \E x \in Idx, y \in Idx :
       /\ cells[x][y] # Cell_new(config[x][y])
       /\ Cardinality(cells[x][y]) >= 2

(***************************************************************************)
(* No candidate set is ever empty: remove_possibility is only applied to   *)
(* a set of two or more, so it leaves at least one.  The case C8 speaks   *)
(* of does not arise in the program.                                       *)
(***************************************************************************)
DomainsNonEmpty == \A x \in Idx, y \in Idx : cells[x][y] # {}

(***************************************************************************)
(* C9.  Propagation engine: every cell is pushed on the solved-cell queue  *)
(* at most once, namely when (and only when) its candidate set has one     *)
(* element: a given clue at construction, another cell in the step that    *)
(* leaves it one candidate.  The queue holds at most 81 entries, no two    *)
(* for the same cell, each carrying its cell's one candidate.              *)
(***************************************************************************)
C9_PushedOnce ==
  /\ \A x \in Idx, y \in Idx :
       /\ pushes[x][y] <= 1
       /\ pushes[x][y] = 1 <=> is_solved(cells[x][y])
  /\ Len(solved_cells) <= AREA
  /\ \A j \in 1 .. Len(solved_cells), k \in 1 .. Len(solved_cells) :
       j # k => <<solved_cells[j].x, solved_cells[j].y>>
                  # <<solved_cells[k].x, solved_cells[k].y>>
  /\ \A k \in 1 .. Len(solved_cells) :
       LET e == solved_cells[k]
       IN  /\ pushes[e.x][e.y] = 1
           /\ e.value = resolve(cells[e.x][e.y])

\* A cell that was empty in the input is on the queue.
C9_Witness ==
  \E k \in 1 .. Len(solved_cells) :
    config[solved_cells[k].x][solved_cells[k].y] = 0

(***************************************************************************)
(* C10.  Confluence.  Whatever order the queue's entries are processed     *)
(* in, solve() ends with every cell's candidate set equal to the one the   *)
(* front-first order ends with.                                            *)
(***************************************************************************)
C10_Confluent ==
  npc = "returned" => cells = RunFifo(Board_new(config)).cells

\* The input grid is completed by one of two known valid grids.
GridOfConfig(c) == [i \in Pos |-> c[i \div 9][i % 9]]

ConfigCompletes(g, c) ==
  /\ GridValid(g)
  /\ \A i \in Pos : GridOfConfig(c)[i] # 0 => g[i] = GridOfConfig(c)[i]

\* FullGrid with rows 3 and 5 exchanged and the digits 8 and 9 exchanged:
\* another valid grid, with 9 then 8 at the end of row 0.
AltGrid ==
  [i \in Pos |->
     LET r == IF RowOf(i) = 3 THEN 5 ELSE IF RowOf(i) = 5 THEN 3 ELSE RowOf(i)
         d == GridOf(FullGrid)[r * 9 + ColOf(i)]
     IN  IF d = 8 THEN 9 ELSE IF d = 9 THEN 8 ELSE d]

KnownSolvable(c) ==
  ConfigCompletes(GridOf(FullGrid), c) \/ ConfigCompletes(AltGrid, c)

(***************************************************************************)
(* C10 as amended: the same for every input grid that has at least one     *)
(* valid completion.                                                       *)
(***************************************************************************)
C10_ConfluentSolvable ==
  npc = "returned" /\ KnownSolvable(config)
    => cells = RunFifo(Board_new(config)).cells

\* A reordered run has ended on a solvable grid in which propagation
\* decided a cell that the input left empty.
C10_Witness ==
  /\ npc = "returned"
  /\ KnownSolvable(config)
  /\ \E x \in Idx, y \in Idx : config[x][y] = 0 /\ is_solved(cells[x][y])

(***************************************************************************)
(* C11.  Frame of solve().  Every cell outside the unsolved-cell list      *)
(* holds the value construction gave it, in every state; no step changes   *)
(* the unsolved-cell list, the coordinates or the row, column and block    *)
(* tables; and a step changes the board only at positions the list names.  *)
(***************************************************************************)
Unsolved == {unsolved_cells[k] : k \in 1 .. Len(unsolved_cells)}

C11_Frame ==
  /\ [](\A i \in Pos \ Unsolved : board[i] = from_iter(iter).board[i])
  /\ [][/\ unsolved_cells' = unsolved_cells
        /\ <<coords, rows, cols, blocks>>' = <<coords, rows, cols, blocks>>
        /\ \A i \in Pos : board'[i] # board[i] => i \in Unsolved]_vars

\* solve() has written an unsolved cell of a puzzle that has clues.
C11_Witness ==
  /\ pc = "loop"
  /\ Len(iter) > 0
  /\ \E i \in Unsolved : board[i] # 0

(***************************************************************************)
(* C12.  Malformed input is rejected at construction by both engines:      *)
(* solve() never runs on an instance built from clues of which two in one  *)
(* row, column or block carry the same digit, or one carries a digit       *)
(* outside 1..9 or names a position outside the grid.                      *)
(***************************************************************************)
ClueListWellFormed(it) ==
  /\ \A k \in 1 .. Len(it) : it[k][1] \in Pos /\ it[k][2] \in Digits
  /\ \A k, l \in 1 .. Len(it) :
       it[k][1] \in Pos /\ it[l][1] \in Pos /\ it[l][1] \in Peers(it[k][1])
         => it[k][2] # it[l][2]

ConfigWellFormed(c) ==
  \A x \in Idx, y \in Idx :
    c[x][y] # 0 =>
      /\ c[x][y] \in Digits
      /\ \A j \in Peers(x * 9 + y) : c[RowOf(j)][ColOf(j)] # c[x][y]

C12_MalformedRejected ==
  /\ pc \in {"loop", "returned"} => ClueListWellFormed(iter)
  /\ npc \in {"loop", "returned"} => ConfigWellFormed(config)

(***************************************************************************)
(* C13.  Propagation solve() terminates on every input grid: once in the   *)
(* loop it returns, with the solved-cell queue empty, and then exactly one *)
(* of the two holds: every cell has one candidate (success), or some cell  *)
(* still has two or more (stall).                                          *)
(***************************************************************************)
AllResolved == \A x \in Idx, y \in Idx : Cardinality(cells[x][y]) = 1

Stalled == \E x \in Idx, y \in Idx : Cardinality(cells[x][y]) >= 2

C13_Terminates ==
  /\ [](npc = "loop" => <>(npc = "returned"))
  /\ [](npc = "returned" => /\ solved_cells = << >>
                            /\ AllResolved # Stalled)

\* solve() has returned from a stall in which propagation had decided a
\* cell the input left empty.
C13_Witness ==
  /\ npc = "returned"
  /\ Stalled
  /\ \E x \in Idx, y \in Idx : config[x][y] = 0 /\ Cardinality(cells[x][y]) = 1

(***************************************************************************)
(* C14.  Naked singles.  On an input grid whose clues agree with each      *)
(* other and leave every empty cell exactly one digit that no clue of its  *)
(* row, column and block carries, solve() ends with one candidate in every *)
(* cell, and in each empty cell that candidate is the one digit.           *)
(***************************************************************************)
ClueDigitsAround(c, i) == {c[RowOf(j)][ColOf(j)] : j \in Peers(i)} \ {0}

NakedSingles(c) ==
  /\ ConfigWellFormed(c)
  /\ \A i \in Pos :
       c[RowOf(i)][ColOf(i)] = 0
         => Cardinality(Digits \ ClueDigitsAround(c, i)) = 1

C14_NakedSingles ==
  npc = "returned" /\ NakedSingles(config)
    => \A i \in Pos :
         /\ Cardinality(cells[RowOf(i)][ColOf(i)]) = 1
         /\ config[RowOf(i)][ColOf(i)] = 0
              => cells[RowOf(i)][ColOf(i)] = Digits \ ClueDigitsAround(config, i)

\* solve() has returned on a naked-singles grid with two or more empty
\* cells.
C14_Witness ==
  /\ npc = "returned"
  /\ NakedSingles(config)
  /\ Cardinality({i \in Pos : config[RowOf(i)][ColOf(i)] = 0}) >= 2

(***************************************************************************)
(* C15.  One step of propagation.  Processing the front record (x, y,      *)
(* value) removes value from the candidates of those of the cell's 20      *)
(* peers that are not solved, and leaves every other cell's candidates as  *)
(* they were: the cell (x, y) itself, the solved peers, the cells outside  *)
(* its row, column and block.                                              *)
(***************************************************************************)
CellAt(i) == cells[RowOf(i)][ColOf(i)]

C15_StepEffect ==
  [][npc = "loop" /\ solved_cells # << >>
       => LET s == Head(solved_cells)
              p == s.x * 9 + s.y
          IN  /\ Cardinality(Peers(p)) = 20
              /\ \A i \in Pos :
                   cells'[RowOf(i)][ColOf(i)] =
                     IF i \in Peers(p) /\ Cardinality(CellAt(i)) # 1
                     THEN CellAt(i) \ {s.value}
                     ELSE CellAt(i)]_vars

\* Steps have reduced a cell the input left empty to between two and eight
\* candidates while another empty cell still has all nine.
C15_Witness ==
  /\ npc = "loop"
  /\ \E i \in Pos : config[RowOf(i)][ColOf(i)] = 0
                      /\ Cardinality(CellAt(i)) \in 2 .. 8
  /\ \E i \in Pos : config[RowOf(i)][ColOf(i)] = 0 /\ CellAt(i) = 1 .. 9

(***************************************************************************)
(* C16.  is_valid_cell(row, col, value) is true exactly when no other cell *)
(* of the row, the column or the block (row/3)*3 + col/3 of (row, col)     *)
(* holds value, whatever (row, col) itself holds; and the rows, cols and   *)
(* blocks tables each hold, per unit, exactly the nine positions of that   *)
(* unit.  (A call changes no state: is_valid_cell takes &self.)  Checked   *)
(* of every cell on the boards before and after solve(), and of the cell   *)
(* solve() is at on the boards in between.                                 *)
(***************************************************************************)
RowCells == [u \in Idx |-> {i \in Pos : RowOf(i) = u}]
ColCells == [u \in Idx |-> {i \in Pos : ColOf(i) = u}]
BlockCells == [u \in Idx |-> {i \in Pos : BlockOf(i) = u}]

TableHolds(table, unitCells) ==
  \A u \in Idx :
    /\ {table[u][k] : k \in Idx} = unitCells[u]
    /\ \A k, l \in Idx : k # l => table[u][k] # table[u][l]

TablesExact ==
  /\ TableHolds(rows, RowCells)
  /\ TableHolds(cols, ColCells)
  /\ TableHolds(blocks, BlockCells)

\* The values is_valid_cell is asked about: the digits, and 0 and 10.
AskedValues == 0 .. 10

IsValidAt(i) ==
  \A value \in AskedValues :
    is_valid_cell(RowOf(i), ColOf(i), value)
      <=> \A j \in Peers(i) : board[j] # value

C16_IsValid ==
  /\ pc \in {"ready", "loop", "returned"} => TablesExact
  /\ pc \in {"ready", "returned"} => \A i \in Pos : IsValidAt(i)
  /\ pc = "loop" /\ LoopCondition
       => IsValidAt(unsolved_cells[backtrack_idx + 1])

\* During solve() a cell holds a digit d that none of its peers holds, so
\* that is_valid_cell is true of d there, while another digit is refused
\* because of a cell that shares only the block.
C16_Witness ==
  /\ pc = "loop"
  /\ \E i \in Pos :
       /\ board[i] \in Digits
       /\ is_valid_cell(RowOf(i), ColOf(i), board[i])
       /\ \E d \in Digits :
            /\ ~is_valid_cell(RowOf(i), ColOf(i), d)
            /\ \A j \in Peers(i) :
                 board[j] = d => RowOf(j) # RowOf(i) /\ ColOf(j) # ColOf(i)

(***************************************************************************)
(* C17.  find_solution(row, col) returns the smallest value above the      *)
(* cell's own and at most 9 that no other cell of its row, column and      *)
(* block holds, and None exactly when there is no such value (so always    *)
(* when the cell holds 9); never a value at or below the cell's own.       *)
(* Checked of every cell on the boards before and after solve(), and of    *)
(* the cell solve() is at on the boards in between.                        *)
(***************************************************************************)
FreeAbove(i) ==
  {v \in (board[i] + 1) .. 9 : \A j \in Peers(i) : board[j] # v}

FindSolutionAt(i) ==
  LET found == find_solution(RowOf(i), ColOf(i))
  IN  /\ found = (IF FreeAbove(i) = {} THEN None ELSE Some(Min(FreeAbove(i))))
      /\ found # None => found[1] > board[i] /\ found[1] <= 9
      /\ board[i] >= 9 => found = None

C17_FindSolution ==
  /\ pc \in {"ready", "returned"} => \A i \in Pos : FindSolutionAt(i)
  /\ pc = "loop" /\ LoopCondition
       => FindSolutionAt(unsolved_cells[backtrack_idx + 1])

\* solve() is at a cell that holds a digit, and its next candidate is not
\* the next digit: find_solution has passed over a digit a peer holds.
C17_Witness ==
  /\ pc = "loop"
  /\ LoopCondition
  /\ LET i == unsolved_cells[backtrack_idx + 1]
     IN  /\ board[i] \in 1 .. 7
         /\ find_solution(RowOf(i), ColOf(i)) # None
         /\ find_solution(RowOf(i), ColOf(i))[1] > board[i] + 1

(***************************************************************************)
(* C18.  Search invariant.  Whenever solve() evaluates its loop condition  *)
(* with the cursor at k, every cell of the unsolved-cell list before       *)
(* position k holds a digit 1..9 that no other cell of its row, column     *)
(* and block holds, and every cell of the list after position k holds 0.   *)
(***************************************************************************)
C18_SearchInvariant ==
  pc = "loop"
    => \A p \in 1 .. Len(unsolved_cells) :
         LET i == unsolved_cells[p]
         IN  /\ p - 1 < backtrack_idx
                  => /\ board[i] \in Digits
                     /\ \A j \in Peers(i) : board[j] # board[i]
             /\ p - 1 > backtrack_idx => board[i] = 0

(***************************************************************************)
(* C19.  Least solution.  For a clue list with at least one valid          *)
(* completion, the grid the first solve() returns is the valid completion  *)
(* that is lexicographically smallest when the unsolved cells are read in  *)
(* ascending order of position (so every run on the same clues returns     *)
(* that one grid).  Stated for the inputs whose completions are            *)
(* enumerated.                                                             *)
(***************************************************************************)
LexLeq(a, b) ==
  LET D == {i \in Unsolved : a[i] # b[i]}
  IN  D = {} \/ a[Min(D)] < b[Min(D)]

C19_LeastSolution ==
  FirstReturn /\ Enumerable(iter) /\ Completions(iter) # {}
    => /\ board \in Completions(iter)
       /\ \A g \in Completions(iter) : LexLeq(board, g)

\* The first solve() has returned on a puzzle with two or more completions.
C19_Witness ==
  /\ FirstReturn
  /\ Enumerable(iter)
  /\ Cardinality(Completions(iter)) >= 2

(***************************************************************************)
(* C20.  Soundness.  For an input grid and a valid completion S of it, in  *)
(* every state of solve() each cell's candidates include S's digit for the *)
(* cell; so no candidate set is empty, every queue entry carries S's digit *)
(* for its cell, and a cell with one candidate holds S's digit.  S ranges  *)
(* over the completions known for the inputs: FullGrid, its variants, and  *)
(* the solutions of main's grids.                                          *)
(***************************************************************************)
\* The completions of config1, config2 and sudoku1.
Solved1 ==
  << 7, 1, 6, 5, 4, 3, 9, 8, 2,
     9, 4, 8, 1, 6, 2, 5, 7, 3,
     5, 2, 3, 9, 7, 8, 1, 6, 4,
     8, 5, 7, 6, 2, 4, 3, 1, 9,
     4, 3, 9, 7, 5, 1, 8, 2, 6,
     1, 6, 2, 3, 8, 9, 7, 4, 5,
     3, 9, 4, 2, 1, 7, 6, 5, 8,
     2, 7, 5, 8, 3, 6, 4, 9, 1,
     6, 8, 1, 4, 9, 5, 2, 3, 7 >>

Solved2 ==
  << 5, 3, 4, 6, 7, 8, 9, 1, 2,
     6, 7, 2, 1, 9, 5, 3, 4, 8,
     1, 9, 8, 3, 4, 2, 5, 6, 7,
     8, 5, 9, 7, 6, 1, 4, 2, 3,
     4, 2, 6, 8, 5, 3, 7, 9, 1,
     7, 1, 3, 9, 2, 4, 8, 5, 6,
     9, 6, 1, 5, 3, 7, 2, 8, 4,
     2, 8, 7, 4, 1, 9, 6, 3, 5,
     3, 4, 5, 2, 8, 6, 1, 7, 9 >>

SolvedSudoku1 ==
  << 4, 9, 7, 2, 6, 5, 3, 1, 8,
     6, 8, 2, 1, 9, 3, 7, 5, 4,
     5, 1, 3, 4, 7, 8, 2, 6, 9,
     2, 7, 6, 8, 5, 9, 1, 4, 3,
     3, 4, 8, 6, 2, 1, 5, 9, 7,
     1, 5, 9, 3, 4, 7, 8, 2, 6,
     8, 6, 4, 7, 1, 2, 9, 3, 5,
     9, 3, 1, 5, 8, 6, 4, 7, 2,
     7, 2, 5, 9, 3, 4, 6, 8, 1 >>

\* FullGrid with the 1s and 2s of its first four window cells exchanged.
SwapGrid ==
  [i \in Pos |-> IF i \in {0, 1, 27, 28} THEN 3 - FullGrid[i + 1]
                 ELSE FullGrid[i + 1]]

KnownGrids ==
  {g \in {GridOf(FullGrid), AltGrid, SwapGrid, GridOf(Solved1),
          GridOf(Solved2), GridOf(SolvedSudoku1)} : GridValid(g)}

KnownCompletions(c) ==
  {g \in KnownGrids : \A i \in Pos : GridOfConfig(c)[i] \in {0, g[i]}}

C20_Sound ==
  npc \in {"ready", "loop", "returned"}
    => \A S \in KnownCompletions(config) :
         /\ \A i \in Pos : S[i] \in CellAt(i)
         /\ \A i \in Pos : Cardinality(CellAt(i)) = 1 => CellAt(i) = {S[i]}
         /\ \A k \in 1 .. Len(solved_cells) :
              solved_cells[k].value
                = S[solved_cells[k].x * 9 + solved_cells[k].y]

\* solve() has returned on main's config1 with every cell resolved to its
\* completion.
C20_Witness ==
  /\ npc = "returned"
  /\ config = Config1
  /\ KnownCompletions(config) = {GridOf(Solved1)}
  /\ \A i \in Pos : CellAt(i) = {Solved1[i + 1]}

=============================================================================
